---- MODULE Spec2Model ----
(***************************************************************************)
(* The session-correlated message relay of mcp-sse: the SSE stream handler *)
(* (handle_sse / event_stream), the request dispatcher (handle_messages),  *)
(* the execution unit (run_mcp_tool) of src/middleware.py, and the handler *)
(* program it spawns (main of src/weather_stdio.py).                       *)
(*                                                                         *)
(* Text (a Python str) is a sequence of string tokens; concatenation is \o.*)
(* A JSON value is a record [t, v]: t its type, v its content.             *)
(***************************************************************************)
EXTENDS Integers, Sequences, FiniteSets, TLC

\* ------------------------------------------------------------------ bounds
\* Push-channel connections, correlated requests, and completed keep-alive
\* sleeps per connection that the model follows.
MaxConns == 2
MaxReqs == 1
MaxSleeps == 1

ConnIds == 1..MaxConns
ReqIds == 1..MaxReqs
\* The request slots of the state: one more than ReqIds, for the
\* specification that follows requests in flight together.
Slots == 1..(MaxReqs + 1)

\* ------------------------------------------------------------- JSON values
Null == [t |-> "null", v |-> <<>>]
JStr(s) == [t |-> "str", v |-> s]
JNum(n) == [t |-> "num", v |-> <<n>>]
JList == [t |-> "list", v |-> <<>>]
JObj(m) == [t |-> "obj", v |-> m]
EmptyMap == <<>>

\* dict.get(key) and dict.get(key, default) of Python on a JSON object.
DictGet(m, key, default) == IF key \in DOMAIN m THEN m[key] ELSE default

\* Python truthiness of a JSON value, as `not x` reads it.
Truthy(x) ==
    CASE x.t = "null" -> FALSE
      [] x.t = "str" -> x.v # <<>>
      [] x.t = "num" -> x.v # <<0>>
      [] x.t = "list" -> x.v # <<>>
      [] x.t = "obj" -> DOMAIN x.v # {}

\* json.dumps of an object, and json.loads of a line of text: a line that is
\* not JSON text raises JSONDecodeError.
JsonDumps(obj) == [t |-> "json", v |-> obj]
NotJsonLine == [t |-> "text", v |-> JList]
IsJsonText(line) == line.t = "json"
JsonLoads(line) == line.v

\* json.dumps({"result": results}) as the text the handler writes, and the
\* decoding of such a line back to its result string.
ResultPrefix == <<"{\"result\": \"">>
ResultSuffix == <<"\"}">>
JsonDumpsResult(text) == ResultPrefix \o text \o ResultSuffix
IsResultLine(line) ==
    /\ Len(line) >= 2
    /\ SubSeq(line, 1, 1) = ResultPrefix
    /\ SubSeq(line, Len(line), Len(line)) = ResultSuffix
JsonLoadsResult(line) == SubSeq(line, 2, Len(line) - 1)

\* The lines of a text: the tokens between "\n" tokens.
RECURSIVE SplitLines(_, _)
SplitLines(text, cur) ==
    IF text = <<>> THEN (IF cur = <<>> THEN <<>> ELSE <<cur>>)
    ELSE IF Head(text) = "\n" THEN <<cur>> \o SplitLines(Tail(text), <<>>)
    ELSE SplitLines(Tail(text), Append(cur, Head(text)))

\* str.strip() on the token level: leading and trailing "\n" tokens go.
RECURSIVE LStrip(_)
LStrip(text) ==
    IF text # <<>> /\ Head(text) = "\n" THEN LStrip(Tail(text)) ELSE text
RECURSIVE RStrip(_)
RStrip(text) ==
    IF text # <<>> /\ text[Len(text)] = "\n"
    THEN RStrip(SubSeq(text, 1, Len(text) - 1)) ELSE text
Strip(text) == RStrip(LStrip(text))

Range(f) == {f[i] : i \in DOMAIN f}

\* ------------------------------------------------ weather_stdio.py handler
\* What the data provider does for the lookups of one handler run.
ProviderOutcomes == {"data", "down", "down2"}

AlertsUnavailable == <<"Unable to fetch alerts or no alerts found.">>
AlertsText == <<"Event: Flood Warning", "Area: Los Angeles">>
ForecastUnavailable == <<"Unable to fetch forecast data for this location.">>
ForecastDetailUnavailable == <<"Unable to fetch detailed forecast.">>
ForecastText == <<"Tonight:", "Temperature: 60F">>

\* A call f(**tool_args) binds when every required parameter is given and no
\* other keyword is.
Binds(tool_args, required, optional) ==
    /\ required \subseteq DOMAIN tool_args
    /\ DOMAIN tool_args \subseteq (required \cup optional)

Returned(text, log) == [raised |-> FALSE, text |-> text, log |-> log]
Raised(exc) == [raised |-> TRUE, text |-> <<>>, log |-> <<exc>>]

get_alerts(tool_args, provider) ==
    IF ~Binds(tool_args, {"state"}, {"session_id"})
    THEN Raised("TypeError: get_alerts() got unexpected or missing arguments")
    ELSE IF provider = "down"
    THEN Returned(AlertsUnavailable, <<"get_alerts called", "\n">>)
    ELSE Returned(AlertsText,
                  <<"get_alerts called", "\n", "get_alerts result", "\n">>)

get_forecast(tool_args, provider) ==
    IF ~Binds(tool_args, {"latitude", "longitude"}, {"session_id"})
    THEN Raised("TypeError: get_forecast() got unexpected or missing arguments")
    ELSE IF provider = "down"
    THEN Returned(ForecastUnavailable, <<"get_forecast called", "\n">>)
    ELSE IF provider = "down2"
    THEN Returned(ForecastDetailUnavailable, <<"get_forecast called", "\n">>)
    ELSE Returned(ForecastText,
                  <<"get_forecast called", "\n", "get_forecast result", "\n">>)

Exited(rc, out, err) == [returncode |-> rc, stdout |-> out, stderr |-> err]
Traceback(exc) == <<"Traceback (most recent call last):", "\n", exc, "\n">>

\* The local variable `results` of main: unbound until a tool branch assigns it.
Unbound == [bound |-> FALSE, text |-> <<>>]
Bound(text) == [bound |-> TRUE, text |-> text]

\* The keyword arguments main calls a capability with (lines 121-123).
HandlerArgs(tool_request) ==
    LET args0 == DictGet(tool_request, "arguments", JObj(EmptyMap)).v
    IN  IF "session_id" \in DOMAIN tool_request
        THEN ("session_id" :> tool_request["session_id"]) @@ args0
        ELSE args0

\* main of weather_stdio.py on the lines its stdin delivers before end of
\* input: the read loop, with what it has written so far.
RECURSIVE MainLoop(_, _, _, _, _)
MainLoop(lines, results, out, err, provider) ==
    IF lines = <<>>
    THEN Exited(0, out, err \o <<"No request found", "\n">>)
    ELSE IF ~IsJsonText(Head(lines))
    THEN MainLoop(Tail(lines), results,
                  out \o <<"Bad request found", "\n">>,
                  err \o <<"Invalid JSON received", "\n">>, provider)
    ELSE
      LET tool_request == JsonLoads(Head(lines))
          tool_args == HandlerArgs(tool_request)
          tool_name == DictGet(tool_request, "tool_name", Null)
          call == IF tool_name = JStr(<<"get_forecast">>)
                  THEN get_forecast(tool_args, provider)
                  ELSE get_alerts(tool_args, provider)
          known == tool_name \in {JStr(<<"get_forecast">>), JStr(<<"get_alerts">>)}
          label == IF tool_name = JStr(<<"get_forecast">>)
                   THEN "results: " ELSE "results"
      IN  IF known /\ call.raised
          THEN Exited(1, out, err \o Traceback(call.log[1]))
          ELSE IF ~known /\ ~results.bound
          THEN Exited(1, out,
                      err \o Traceback("UnboundLocalError: results"))
          ELSE
            LET res == IF known THEN Bound(call.text) ELSE results
                err1 == IF known THEN err \o call.log ELSE err
                out1 == IF known
                        THEN out \o <<label>> \o call.text \o <<"\n">>
                        ELSE out
                out2 == IF res.text # <<>>
                        THEN out1 \o JsonDumpsResult(res.text) \o <<"\n">>
                        ELSE out1
            IN  MainLoop(Tail(lines), res, out2, err1, provider)

main(lines, provider) == MainLoop(lines, Unbound, <<>>, <<>>, provider)

\* ------------------------------------------------------- HTTP request bodies
\* The body of a POST to /messages: text that is not JSON, or a JSON value.
NotJsonBody == [t |-> "notjson", v |-> Null]
JsonBody(value) == [t |-> "json", v |-> value]

\* A field a JSON object does not have.
Absent == [t |-> "absent", v |-> <<>>]

\* The JSON object with the given fields, those that are Absent left out.
MkObject(session_id, tool_name, arguments) ==
    LET given == [k \in {"session_id", "tool_name", "arguments"} |->
                    CASE k = "session_id" -> session_id
                      [] k = "tool_name" -> tool_name
                      [] k = "arguments" -> arguments]
        keys == {k \in DOMAIN given : given[k] # Absent}
    IN  JObj([k \in keys |-> given[k]])

\* Session ids are uuid4 values, named by the order uuid4 produced them; one
\* more than the connections can use, so that an id no connection was given
\* always exists.
Uuid(i) == <<"uuid-", ToString(i)>>
Uuids == {Uuid(i) : i \in 1..(MaxConns + 1)}
NeverIssuedUuid == Uuid(MaxConns + 1)

KnownTools == {<<"get_alerts">>, <<"get_forecast">>}
ToolNames == KnownTools \cup {<<"get_tides">>}

ArgMaps ==
    { EmptyMap,
      [state |-> JStr(<<"CA">>)],
      [state |-> JStr(<<"CA">>), session_id |-> JStr(<<"spoofed">>)],
      [latitude |-> JNum(34), longitude |-> JNum(-118)] }

SessionIdVals == {Absent, Null, JStr(<<>>)} \cup {JStr(u) : u \in Uuids}
ToolNameVals == {Absent, Null, JStr(<<>>)} \cup {JStr(n) : n \in ToolNames}
ArgumentVals == {Absent, Null, JList} \cup {JObj(m) : m \in ArgMaps}

\* Every shape of body: the inputs of the dispatcher taken alone.
Bodies ==
    {NotJsonBody, JsonBody(JList), JsonBody(Null)}
    \cup {JsonBody(MkObject(s, n, a)) :
            s \in SessionIdVals, n \in ToolNameVals, a \in ArgumentVals}

\* The bodies posted while push channels open and close: the id of the first
\* connection or an id no connection has, a known or an unknown tool, and a
\* body without session_id.
PostedBodies ==
    { JsonBody(MkObject(JStr(Uuid(1)), JStr(<<"get_alerts">>),
                        JObj([state |-> JStr(<<"CA">>)]))),
      JsonBody(MkObject(JStr(NeverIssuedUuid), JStr(<<"get_alerts">>),
                        JObj([state |-> JStr(<<"CA">>)]))),
      JsonBody(MkObject(JStr(Uuid(1)), JStr(<<"get_tides">>),
                        JObj([state |-> JStr(<<"CA">>)]))),
      JsonBody(MkObject(Absent, JStr(<<"get_alerts">>),
                        JObj([state |-> JStr(<<"CA">>)]))) }

\* --------------------------------------------------------------- responses
JSONResponse(key, text, status_code) ==
    [status |-> status_code, body |-> (key :> text)]
NoResponse == [status |-> 0, body |-> <<>>]

MissingFieldMessage ==
    <<"Invalid request: Missing ", "session_id", " or ", "tool_name">>
InvalidJsonMessage == <<"Invalid JSON">>
ProcessingError(e) == <<"Error processing message: ", e>>

\* -------------------------------------------------------------------- state
\* conns: the push-channel connections (one handle_sse call each), with the
\* events sent on each and the sleeps its running keep-alive loop completed;
\* reqs: the correlated requests (one handle_messages call each) with the
\* child process run_mcp_tool spawned for each; `session` is the state of the
\* named session when the request arrived, `spawns` counts the children
\* spawned for it and `results` lists the strings run_mcp_tool returned.
VARIABLES conns, reqs, planner
vars == <<conns, reqs, planner>>

\* The relay client (groq_client_middleware.py) at the other end of a
\* connection: where its main is, how many events sse_client has read, what
\* it took from the endpoint event (None is the empty text), and what its
\* calls of post_message returned.
NoClient ==
    [pc |-> "reading", read |-> 0, endpoint_found |-> FALSE,
     messages_url |-> <<>>, session_id |-> <<>>, posted |-> <<>>]

NoConn ==
    [pc |-> "none", session_id |-> <<>>, messages_url |-> <<>>,
     sent |-> <<>>, sleeps |-> 0, client |-> NoClient]

NoChild ==
    [state |-> "none", stdin |-> <<>>, stdin_closed |-> FALSE,
     returncode |-> 0, stdout |-> <<>>, stderr |-> <<>>]

NoReq ==
    [pc |-> "idle", body |-> NotJsonBody, session |-> "none",
     tool_name |-> Null, tool_args |-> EmptyMap, spawns |-> 0,
     child |-> NoChild, results |-> <<>>, response |-> NoResponse]

\* The planner client (client_sse.py) before process_query is called: no
\* history, no model invocation yet, no tool call in hand.
NoPlanner ==
    [pc |-> "idle", iteration |-> 0, messages |-> <<>>, pending |-> 0,
     issued |-> 0]

Init ==
    /\ conns = [c \in ConnIds |-> NoConn]
    /\ reqs = [r \in Slots |-> NoReq]
    /\ planner = NoPlanner

\* ------------------------------------------------- handle_sse, event_stream
\* The ids handed out so far, and what uuid.uuid4() can return next: a value
\* it has not returned before.
Issued == {conns[c].session_id : c \in {d \in ConnIds : conns[d].pc # "none"}}
uuid4 == {Uuid(Cardinality(Issued) + 1)}

\* A faulty variant of NewSessionIds: the id is generated once, when the application is
\* created, and every connection is given it.
ReusedSessionIds == IF Issued = {} THEN uuid4 ELSE Issued

\* The session id handle_sse gives a new connection (line 71).
NewSessionIds == uuid4

\* f"/messages/?session_id={session_id}" and the query parameter read back.
MessagesUrl(session_id) == <<"/messages/?session_id=">> \o session_id
SessionIdOfUrl(url) == SubSeq(url, 2, Len(url))

EndpointEvent(messages_url) ==
    [event |-> "endpoint", data |-> [messages_url |-> messages_url]]

\* A faulty variant of EndpointUrl: the url is kept in a variable all connections
\* share, so the event carries the url of the connection accepted last.
EndpointUrlShared(c) == MessagesUrl(Uuid(Cardinality(Issued)))

\* The url the endpoint event of connection c carries: the one handle_sse
\* built for this connection, which event_stream closes over.
EndpointUrl(c) == conns[c].messages_url

\* handle_sse up to its return: the session id and the callback url.
HandleSse(c) ==
    /\ conns[c].pc = "none"
    /\ \A d \in ConnIds : d < c => conns[d].pc # "none"
    /\ \E session_id \in NewSessionIds :
         conns' = [conns EXCEPT ![c] =
                     [@ EXCEPT !.pc = "accepted",
                               !.session_id = session_id,
                               !.messages_url = MessagesUrl(session_id)]]
    /\ UNCHANGED <<reqs, planner>>

\* event_stream from its start to the first sleep: the endpoint event.
StreamStart(c) ==
    /\ conns[c].pc = "accepted"
    /\ conns' = [conns EXCEPT ![c] =
                   [@ EXCEPT !.pc = "sleeping",
                             !.sent = Append(@, EndpointEvent(EndpointUrl(c)))]]
    /\ UNCHANGED <<reqs, planner>>

\* asyncio.sleep(60) returns and the loop sleeps again: nothing is sent.
SleepElapsed(c) ==
    /\ conns[c].pc = "sleeping"
    /\ conns[c].sleeps < MaxSleeps
    /\ conns' = [conns EXCEPT ![c].sleeps = @ + 1]
    /\ UNCHANGED <<reqs, planner>>

\* A faulty variant of Disconnect: a failure on one stream ends every open
\* stream.
DisconnectAll(c) ==
    /\ conns[c].pc \in {"accepted", "sleeping"}
    /\ conns' = [d \in DOMAIN conns |->
                   IF conns[d].pc \in {"accepted", "sleeping"}
                   THEN [conns[d] EXCEPT !.pc = "closed", !.sleeps = 0]
                   ELSE conns[d]]
    /\ UNCHANGED <<reqs, planner>>

\* A faulty variant of Disconnect: the end of the stream also cancels the
\* invocations in flight that name its session.
DisconnectCancelling(c) ==
    /\ conns[c].pc \in {"accepted", "sleeping"}
    /\ conns' = [conns EXCEPT ![c] = [@ EXCEPT !.pc = "closed", !.sleeps = 0]]
    /\ reqs' = [r \in DOMAIN reqs |->
                  IF /\ reqs[r].pc \in {"dispatch", "spawned", "waiting"}
                     /\ reqs[r].tool_args["session_id"] =
                          JStr(conns[c].session_id)
                  THEN [reqs[r] EXCEPT !.pc = "cancelled"]
                  ELSE reqs[r]]
    /\ UNCHANGED planner

\* The caller disconnects or the task is cancelled: CancelledError (or an
\* exception) in the sleep breaks the loop; before the stream started, the
\* generator is closed without having run. The loop's count of sleeps goes
\* with the generator.
Disconnect(c) ==
    /\ conns[c].pc \in {"accepted", "sleeping"}
    /\ conns' = [conns EXCEPT ![c] = [@ EXCEPT !.pc = "closed", !.sleeps = 0]]
    /\ UNCHANGED <<reqs, planner>>

\* The state of the session a request names, as the spec's Session Registry
\* would answer: Open while its push channel is connected.
SessionState(session_id) ==
    IF \E c \in ConnIds : /\ conns[c].pc \in {"accepted", "sleeping"}
                          /\ JStr(conns[c].session_id) = session_id
    THEN "open"
    ELSE IF \E c \in ConnIds : /\ conns[c].pc = "closed"
                               /\ JStr(conns[c].session_id) = session_id
    THEN "closed"
    ELSE "unknown"

\* ---------------------------------------------------------- handle_messages
Rejected(response) ==
    [accepted |-> FALSE, response |-> response,
     tool_name |-> Null, tool_args |-> EmptyMap]
Accepted(tool_name, tool_args) ==
    [accepted |-> TRUE, response |-> NoResponse,
     tool_name |-> tool_name, tool_args |-> tool_args]

\* A faulty variant of RequiredFieldsPresent: only session_id is looked at.
RequiredSessionIdOnly(session_id, tool_name) == Truthy(session_id)

\* The fields a request must carry (line 104).
RequiredFieldsPresent(session_id, tool_name) ==
    Truthy(session_id) /\ Truthy(tool_name)

\* A faulty variant of InjectSessionId: a session_id the arguments already
\* carry is kept.
InjectSessionIdDefault(session_id, tool_args) ==
    tool_args @@ ("session_id" :> session_id)

\* tool_args["session_id"] = session_id (line 109).
InjectSessionId(session_id, tool_args) ==
    ("session_id" :> session_id) @@ tool_args

\* handle_messages from the body to the call of run_mcp_tool (lines 96-109),
\* with the except clauses that answer for what it raises (lines 115-122).
Validate(body) ==
    IF body.t = "notjson"
    THEN Rejected(JSONResponse("error", InvalidJsonMessage, 400))
    ELSE IF body.v.t # "obj"
    THEN Rejected(JSONResponse("error",
             ProcessingError("AttributeError: object has no attribute 'get'"),
             500))
    ELSE
      LET data == body.v.v
          session_id == DictGet(data, "session_id", Null)
          tool_name == DictGet(data, "tool_name", Null)
          tool_args == DictGet(data, "arguments", JObj(EmptyMap))
      IN  IF ~RequiredFieldsPresent(session_id, tool_name)
          THEN Rejected(JSONResponse("error", MissingFieldMessage, 400))
          ELSE IF tool_args.t # "obj"
          THEN Rejected(JSONResponse("error",
                   ProcessingError("TypeError: object does not support item assignment"),
                   500))
          ELSE Accepted(tool_name, InjectSessionId(session_id, tool_args.v))

\* A faulty variant of HandleMessages: an exception other than the decode
\* error is not caught; it takes the relay down, with its open streams and
\* the requests it had in flight.
HandleMessagesUncaught(r, body) ==
    /\ reqs[r].pc = "idle"
    /\ \A q \in Slots : q < r => reqs[q].pc # "idle"
    /\ LET v == Validate(body)
           session == IF body.t = "json" /\ body.v.t = "obj"
                      THEN SessionState(DictGet(body.v.v, "session_id", Null))
                      ELSE "unknown"
           arrived == [reqs EXCEPT ![r] =
                         [@ EXCEPT !.pc = IF v.accepted THEN "dispatch"
                                          ELSE "responded",
                                   !.body = body,
                                   !.session = session,
                                   !.tool_name = v.tool_name,
                                   !.tool_args = v.tool_args,
                                   !.response = v.response]]
       IN  IF v.response.status = 500
           THEN /\ reqs' = [q \in DOMAIN reqs |->
                              IF arrived[q].pc \in {"idle", "responded"} /\ q # r
                              THEN arrived[q]
                              ELSE [arrived[q] EXCEPT !.pc = "aborted",
                                                      !.response = NoResponse]]
                /\ conns' = [c \in DOMAIN conns |->
                               IF conns[c].pc \in {"accepted", "sleeping"}
                               THEN [conns[c] EXCEPT !.pc = "closed",
                                                     !.sleeps = 0]
                               ELSE conns[c]]
           ELSE reqs' = arrived /\ UNCHANGED conns
    /\ UNCHANGED planner

\* A request arrives and handle_messages runs to its first response or to the
\* call of run_mcp_tool.
HandleMessages(r, body) ==
    /\ reqs[r].pc = "idle"
    /\ \A q \in Slots : q < r => reqs[q].pc # "idle"
    /\ LET v == Validate(body)
           session == IF body.t = "json" /\ body.v.t = "obj"
                      THEN SessionState(DictGet(body.v.v, "session_id", Null))
                      ELSE "unknown"
       IN  reqs' = [reqs EXCEPT ![r] =
                      [@ EXCEPT !.pc = IF v.accepted THEN "dispatch"
                                       ELSE "responded",
                                !.body = body,
                                !.session = session,
                                !.tool_name = v.tool_name,
                                !.tool_args = v.tool_args,
                                !.response = v.response]]
    /\ UNCHANGED <<conns, planner>>

\* ------------------------------------------------------------- run_mcp_tool
ServerPath == <<"weather_stdio.py">>

\* json.dumps({"tool_name": tool_name, "arguments": tool_args}) (line 28).
InputData(tool_name, tool_args) ==
    JsonDumps(("tool_name" :> tool_name) @@ ("arguments" :> JObj(tool_args)))

\* A faulty variant of ToolOutcome: output on stdout is returned whatever
\* the return code is.
ToolOutcomeStdoutFirst(returncode, stdout, stderr) ==
    IF returncode # 0 /\ Strip(stdout) = <<>>
    THEN <<"MCP server exited with code ", ToString(returncode), "\n">>
         \o stderr
    ELSE Strip(stdout)

\* What run_mcp_tool returns once communicate has returned (lines 43-52).
ToolOutcome(returncode, stdout, stderr) ==
    IF returncode # 0
    THEN <<"MCP server exited with code ", ToString(returncode), "\n">>
         \o stderr
    ELSE Strip(stdout)

\* What it returns when spawning raised (lines 54-61).
SpawnErrors == {"FileNotFoundError", "OSError: Too many open files"}
SpawnFailure(exc) ==
    IF exc = "FileNotFoundError"
    THEN <<"Error: Server file not found at ">> \o ServerPath
    ELSE <<"Error running MCP server: ", exc>>

\* A faulty variant of ToolResponse: the request is only acknowledged and the result is
\* left to the push channel.
ToolResponseDeferred(result) == JSONResponse("status", <<"accepted">>, 202)

\* The response of handle_messages for what run_mcp_tool returned (line 113).
ToolResponse(result) == JSONResponse("result", result, 200)

\* create_subprocess_exec succeeds: the child runs, its pipes are open.
Spawn(r) ==
    /\ reqs[r].pc = "dispatch"
    /\ reqs' = [reqs EXCEPT ![r] =
                  [@ EXCEPT !.pc = "spawned",
                            !.spawns = @ + 1,
                            !.child = [NoChild EXCEPT !.state = "running"]]]
    /\ UNCHANGED <<conns, planner>>

\* create_subprocess_exec raises: run_mcp_tool returns the error text and
\* handle_messages answers with it.
SpawnFails(r) ==
    /\ reqs[r].pc = "dispatch"
    /\ \E exc \in SpawnErrors :
         reqs' = [reqs EXCEPT ![r] =
                    [@ EXCEPT !.pc = "responded",
                              !.results = Append(@, SpawnFailure(exc)),
                              !.response = ToolResponse(SpawnFailure(exc))]]
    /\ UNCHANGED <<conns, planner>>

\* A faulty variant of Communicate: the request line is written but the
\* child's stdin is left open, so the child never reads end of input.
CommunicateLeavesStdinOpen(r) ==
    /\ reqs[r].pc = "spawned"
    /\ reqs' = [reqs EXCEPT ![r] =
                  [@ EXCEPT !.pc = "waiting",
                            !.child = [@ EXCEPT
                                !.stdin = <<InputData(reqs[r].tool_name,
                                                      reqs[r].tool_args)>>]]]
    /\ UNCHANGED <<conns, planner>>

\* communicate writes the request line and closes the child's stdin, then
\* waits for the child to exit.
Communicate(r) ==
    /\ reqs[r].pc = "spawned"
    /\ reqs' = [reqs EXCEPT ![r] =
                  [@ EXCEPT !.pc = "waiting",
                            !.child = [@ EXCEPT
                                !.stdin = <<InputData(reqs[r].tool_name,
                                                      reqs[r].tool_args)>>,
                                !.stdin_closed = TRUE]]]
    /\ UNCHANGED <<conns, planner>>

\* The handler program runs main on its input and exits.
ChildExit(r) ==
    /\ reqs[r].child.state = "running"
    /\ reqs[r].child.stdin_closed
    /\ \E provider \in ProviderOutcomes :
         LET e == main(reqs[r].child.stdin, provider)
         IN  reqs' = [reqs EXCEPT ![r].child =
                        [@ EXCEPT !.state = "exited",
                                  !.returncode = e.returncode,
                                  !.stdout = e.stdout,
                                  !.stderr = e.stderr]]
    /\ UNCHANGED <<conns, planner>>

\* The child fails before main runs (an import of the program fails): it
\* exits with a non-zero code and the diagnostic on stderr.
StartupDiagnostic == <<"ModuleNotFoundError: No module named 'httpx'", "\n">>
ChildCrash(r) ==
    /\ reqs[r].child.state = "running"
    /\ reqs[r].child.stdin_closed
    /\ reqs' = [reqs EXCEPT ![r].child =
                  [@ EXCEPT !.state = "exited",
                            !.returncode = 1,
                            !.stderr = Traceback(StartupDiagnostic[1])]]
    /\ UNCHANGED <<conns, planner>>

\* The child is killed by a signal after main has written its output and
\* before it exits by itself: communicate returns what the pipes hold and
\* the return code is the negated signal number.
KillSignal == 9
ChildKilled(r) ==
    /\ reqs[r].child.state = "running"
    /\ reqs[r].child.stdin_closed
    /\ \E provider \in ProviderOutcomes :
         LET e == main(reqs[r].child.stdin, provider)
         IN  /\ e.returncode = 0
             /\ reqs' = [reqs EXCEPT ![r].child =
                           [@ EXCEPT !.state = "exited",
                                     !.returncode = 0 - KillSignal,
                                     !.stdout = e.stdout,
                                     !.stderr = e.stderr]]
    /\ UNCHANGED <<conns, planner>>

\* The child blocks for good: it will never exit.
ChildHang(r) ==
    /\ reqs[r].child.state = "running"
    /\ reqs[r].child.stdin_closed
    /\ reqs' = [reqs EXCEPT ![r].child.state = "hung"]
    /\ UNCHANGED <<conns, planner>>

\* A faulty variant of Respond: the response is built from what the child
\* has written so far, without waiting for its exit.
RespondWithoutWaiting(r) ==
    /\ reqs[r].pc = "waiting"
    /\ LET c == reqs[r].child
           result == ToolOutcome(c.returncode, c.stdout, c.stderr)
       IN  reqs' = [reqs EXCEPT ![r] =
                      [@ EXCEPT !.pc = "responded",
                                !.results = Append(@, result),
                                !.response = ToolResponse(result)]]
    /\ UNCHANGED <<conns, planner>>

\* A faulty variant of Respond: after a non-zero exit the invocation is put
\* back to be spawned again instead of being answered.
RespondOrRetry(r) ==
    /\ reqs[r].pc = "waiting"
    /\ reqs[r].child.state = "exited"
    /\ LET c == reqs[r].child
           result == ToolOutcome(c.returncode, c.stdout, c.stderr)
       IN  reqs' = [reqs EXCEPT ![r] =
                      IF c.returncode # 0
                      THEN [@ EXCEPT !.pc = "dispatch", !.child = NoChild]
                      ELSE [@ EXCEPT !.pc = "responded",
                                     !.results = Append(@, result),
                                     !.response = ToolResponse(result)]]
    /\ UNCHANGED <<conns, planner>>

\* A faulty variant of Respond: the process handle is kept where all
\* requests share it, so the response is built from whichever child exited.
RespondFromAnyChild(r) ==
    /\ reqs[r].pc = "waiting"
    /\ reqs[r].child.state = "exited"
    /\ \E q \in Slots :
         /\ reqs[q].child.state = "exited"
         /\ LET c == reqs[q].child
                result == ToolOutcome(c.returncode, c.stdout, c.stderr)
            IN  reqs' = [reqs EXCEPT ![r] =
                           [@ EXCEPT !.pc = "responded",
                                     !.results = Append(@, result),
                                     !.response = ToolResponse(result)]]
    /\ UNCHANGED <<conns, planner>>

\* communicate returns after the child's exit; run_mcp_tool returns its
\* string and handle_messages sends the response (lines 41-52, 112-113).
Respond(r) ==
    /\ reqs[r].pc = "waiting"
    /\ reqs[r].child.state = "exited"
    /\ LET c == reqs[r].child
           result == ToolOutcome(c.returncode, c.stdout, c.stderr)
       IN  reqs' = [reqs EXCEPT ![r] =
                      [@ EXCEPT !.pc = "responded",
                                !.results = Append(@, result),
                                !.response = ToolResponse(result)]]
    /\ UNCHANGED <<conns, planner>>

\* ------------------------------------------------------------ specification
\* The relay with its push channels and the requests posted while they open
\* and close. A child killed from outside is left to the specifications of
\* the dispatcher below.
Next ==
    \/ \E c \in ConnIds : HandleSse(c)
    \/ \E c \in ConnIds : StreamStart(c)
    \/ \E c \in ConnIds : SleepElapsed(c)
    \/ \E c \in ConnIds : Disconnect(c)
    \/ \E r \in ReqIds : \E body \in PostedBodies : HandleMessages(r, body)
    \/ \E r \in ReqIds : Spawn(r)
    \/ \E r \in ReqIds : SpawnFails(r)
    \/ \E r \in ReqIds : Communicate(r)
    \/ \E r \in ReqIds : ChildExit(r)
    \/ \E r \in ReqIds : ChildCrash(r)
    \/ \E r \in ReqIds : ChildHang(r)
    \/ \E r \in ReqIds : Respond(r)

Spec == Init /\ [][Next]_vars

\* The dispatcher and its execution unit taken alone: one request with a body
\* of any shape, no push channel.
DispatchReq == CHOOSE r \in ReqIds : \A q \in ReqIds : r <= q
DispatchNext ==
    \/ \E body \in Bodies : HandleMessages(DispatchReq, body)
    \/ Spawn(DispatchReq)
    \/ SpawnFails(DispatchReq)
    \/ Communicate(DispatchReq)
    \/ ChildExit(DispatchReq)
    \/ ChildCrash(DispatchReq)
    \/ ChildKilled(DispatchReq)
    \/ ChildHang(DispatchReq)
    \/ Respond(DispatchReq)

SpecDispatch == Init /\ [][DispatchNext]_vars

\* The dispatcher and its execution unit with a child that does not block
\* for good, every step taken in the end once it can be taken: the event
\* loop runs a task that is ready, and the child runs.
LiveNext ==
    \/ \E body \in Bodies : HandleMessages(DispatchReq, body)
    \/ Spawn(DispatchReq)
    \/ SpawnFails(DispatchReq)
    \/ Communicate(DispatchReq)
    \/ ChildExit(DispatchReq)
    \/ ChildCrash(DispatchReq)
    \/ ChildKilled(DispatchReq)
    \/ Respond(DispatchReq)

SpecLive ==
    /\ Init
    /\ [][LiveNext]_vars
    /\ WF_vars(Spawn(DispatchReq))
    /\ WF_vars(Communicate(DispatchReq))
    /\ WF_vars(ChildExit(DispatchReq))
    /\ WF_vars(Respond(DispatchReq))

\* Requests in flight together, next to one push channel: every request slot
\* is used, with bodies that tell the requests apart (two tools, two session
\* ids) and two bodies that make handle_messages raise. The channel is
\* followed to its first sleep.
FirstConn == CHOOSE c \in ConnIds : \A d \in ConnIds : c <= d
PairBodies ==
    { JsonBody(MkObject(JStr(Uuid(1)), JStr(<<"get_alerts">>),
                        JObj([state |-> JStr(<<"CA">>)]))),
      JsonBody(MkObject(JStr(NeverIssuedUuid), JStr(<<"get_forecast">>),
                        JObj([latitude |-> JNum(34),
                              longitude |-> JNum(-118)]))),
      JsonBody(MkObject(JStr(Uuid(1)), JStr(<<"get_alerts">>), Null)),
      JsonBody(JList) }
PairNext ==
    \/ HandleSse(FirstConn)
    \/ StreamStart(FirstConn)
    \/ Disconnect(FirstConn)
    \/ \E r \in Slots : \E body \in PairBodies : HandleMessages(r, body)
    \/ \E r \in Slots : Spawn(r)
    \/ \E r \in Slots : SpawnFails(r)
    \/ \E r \in Slots : Communicate(r)
    \/ \E r \in Slots : ChildExit(r)
    \/ \E r \in Slots : ChildCrash(r)
    \/ \E r \in Slots : ChildKilled(r)
    \/ \E r \in Slots : ChildHang(r)
    \/ \E r \in Slots : Respond(r)

SpecPair == Init /\ [][PairNext]_vars

\* ------------------------------------------- groq_client_middleware.py
\* sse_client takes one event off the stream (lines 25-61): the first
\* endpoint event gives messages_url and the session_id of its query.
SseClientReads(c) ==
    /\ conns[c].client.pc = "reading"
    /\ conns[c].client.read < Len(conns[c].sent)
    /\ LET ev == conns[c].sent[conns[c].client.read + 1]
       IN  conns' = [conns EXCEPT ![c].client =
                       IF ev.event = "endpoint" /\ ~@.endpoint_found
                       THEN [@ EXCEPT !.read = @ + 1,
                                      !.endpoint_found = TRUE,
                                      !.messages_url = ev.data.messages_url,
                                      !.session_id =
                                         SessionIdOfUrl(ev.data.messages_url)]
                       ELSE [@ EXCEPT !.read = @ + 1]]
    /\ UNCHANGED <<reqs, planner>>

\* The stream has ended and all of it was read: the loop over the response
\* content finishes, sse_client returns (line 78) and main goes on to its
\* first post, or gives up when it got no url or no session id (line 110).
SseClientReturns(c) ==
    /\ conns[c].client.pc = "reading"
    /\ conns[c].pc = "closed"
    /\ conns[c].client.read = Len(conns[c].sent)
    /\ conns' = [conns EXCEPT ![c].client.pc =
                   IF conns[c].client.messages_url = <<>>
                      \/ conns[c].client.session_id = <<>>
                   THEN "exited"
                   ELSE "post_forecast"]
    /\ UNCHANGED <<reqs, planner>>

\* The messages main builds (lines 119-127, 137-145); the coordinates are
\* kept as whole numbers.
ClientMessage(session_id, tool_name, arguments) ==
    JObj([jsonrpc |-> JStr(<<"2.0">>),
          method |-> JStr(<<"tools/call">>),
          params |-> MkObject(JStr(session_id), JStr(tool_name),
                              JObj(arguments))])
MessageForecast(session_id) ==
    ClientMessage(session_id, <<"get_forecast">>,
                  [latitude |-> JNum(34), longitude |-> JNum(-118)])
MessageAlerts(session_id) ==
    ClientMessage(session_id, <<"get_alerts">>, [state |-> JStr(<<"CA">>)])

\* The message of the post the client is at.
MessageInHand(c) ==
    IF conns[c].client.pc \in {"post_forecast", "posting_forecast"}
    THEN MessageForecast(conns[c].client.session_id)
    ELSE MessageAlerts(conns[c].client.session_id)

\* Where main goes after a post.
AfterPost(pc) ==
    IF pc \in {"post_forecast", "posting_forecast"}
    THEN "post_alerts" ELSE "exited"

\* What post_message returns for a response status (lines 87-95).
PostMessageReturns(status) == status = 202

\* post_message sends its request (line 86).
PostMessageSends(c) ==
    /\ conns[c].client.pc \in {"post_forecast", "post_alerts"}
    /\ conns' = [conns EXCEPT ![c].client.pc =
                   IF @ = "post_forecast" THEN "posting_forecast"
                   ELSE "posting_alerts"]
    /\ UNCHANGED <<reqs, planner>>

\* The request does not get through (aiohttp.ClientError, lines 96-98):
\* post_message returns False.
PostMessageFails(c) ==
    /\ conns[c].client.pc \in {"post_forecast", "post_alerts"}
    /\ conns' = [conns EXCEPT ![c].client =
                   [@ EXCEPT !.pc = AfterPost(@),
                             !.posted = Append(@, [returned |-> FALSE,
                                                   status |-> 0])]]
    /\ UNCHANGED <<reqs, planner>>

\* The request of a client reaches the relay.
PostArrives(r, c) ==
    /\ conns[c].client.pc \in {"posting_forecast", "posting_alerts"}
    /\ \A q \in Slots : reqs[q].body # JsonBody(MessageInHand(c))
    /\ HandleMessages(r, JsonBody(MessageInHand(c)))

\* The response of the relay reaches post_message, which returns.
PostMessageReturnsTo(c) ==
    /\ conns[c].client.pc \in {"posting_forecast", "posting_alerts"}
    /\ \E r \in Slots :
         /\ reqs[r].body = JsonBody(MessageInHand(c))
         /\ reqs[r].pc = "responded"
         /\ conns' = [conns EXCEPT ![c].client =
                        [@ EXCEPT !.pc = AfterPost(@),
                                  !.posted =
                                    Append(@,
                                      [returned |->
                                         PostMessageReturns(
                                           reqs[r].response.status),
                                       status |-> reqs[r].response.status])]]
    /\ UNCHANGED <<reqs, planner>>

\* The relay with the relay client on its first connection; other
\* connections are callers that only listen.
ClientNext ==
    \/ \E c \in ConnIds : HandleSse(c)
    \/ \E c \in ConnIds : StreamStart(c)
    \/ \E c \in ConnIds : SleepElapsed(c)
    \/ \E c \in ConnIds : Disconnect(c)
    \/ SseClientReads(FirstConn)
    \/ SseClientReturns(FirstConn)
    \/ PostMessageSends(FirstConn)
    \/ PostMessageFails(FirstConn)
    \/ \E r \in Slots : PostArrives(r, FirstConn)
    \/ PostMessageReturnsTo(FirstConn)

SpecClient == Init /\ [][ClientNext]_vars

\* ------------------------------------------- client_sse.py process_query
\* The loop bound of process_query (line 103), the most tool calls one model
\* response carries here, and the most model responses that carry any.
max_iterations == 5
MaxCalls == 2
MaxToolRounds == 2

\* The tools list_tools reported, and the names the model may ask for.
available_tools == {"get_alerts", "get_forecast"}
CalledNames == {"get_alerts", "get_tides"}

HumanMessage(content) ==
    [type |-> "human", content |-> content, tool_calls |-> <<>>,
     tool_call_id |-> 0]
AIMessage(tool_calls) ==
    [type |-> "ai", content |-> <<>>, tool_calls |-> tool_calls,
     tool_call_id |-> 0]
ToolMessage(content, tool_call_id) ==
    [type |-> "tool", content |-> content, tool_calls |-> <<>>,
     tool_call_id |-> tool_call_id]

\* The tool calls a model response can carry: up to MaxCalls names, the ids
\* numbered on from those already given.
ToolCallLists(issued) ==
    { [i \in DOMAIN names |-> [name |-> names[i], id |-> issued + i]] :
        names \in UNION { [1..n -> CalledNames] : n \in 0..MaxCalls } }

\* The model responses with tool calls so far.
ToolRounds ==
    Cardinality({ i \in DOMAIN planner.messages :
                    planner.messages[i].tool_calls # <<>> })

\* process_query starts: the history holds the query (line 97).
ProcessQuery ==
    /\ planner.pc = "idle"
    /\ planner' = [planner EXCEPT !.pc = "invoke",
                                  !.messages = <<HumanMessage(<<"query">>)>>]
    /\ UNCHANGED <<conns, reqs>>

\* The model is invoked and answers (lines 108, 127, 138-146): its message is
\* appended; without tool calls the loop is left, with tool calls they are
\* processed next.
LlmResponds ==
    /\ planner.pc = "invoke"
    /\ planner.iteration < max_iterations
    /\ \E tool_calls \in ToolCallLists(planner.issued) :
         /\ tool_calls # <<>> => ToolRounds < MaxToolRounds
         /\ planner' = [planner EXCEPT
                          !.pc = IF tool_calls = <<>> THEN "done" ELSE "tools",
                          !.messages = Append(@, AIMessage(tool_calls)),
                          !.pending = IF tool_calls = <<>> THEN 0 ELSE 1,
                          !.issued = @ + Len(tool_calls)]
    /\ UNCHANGED <<conns, reqs>>

\* The invocation of the model raises (lines 110-118): the loop is left.
LlmRaises ==
    /\ planner.pc = "invoke"
    /\ planner.iteration < max_iterations
    /\ planner' = [planner EXCEPT !.pc = "done"]
    /\ UNCHANGED <<conns, reqs>>

\* The model response whose tool calls are being processed, and the call in
\* hand.
CurrentCalls == planner.messages[Len(planner.messages) - (planner.pending - 1)].tool_calls
CallInHand == CurrentCalls[planner.pending]

\* The end of one pass of the loop over the tool calls (line 180): the
\* ToolMessage is appended; after the last call the outer loop goes round.
AppendToolMessage(content) ==
    LET last == planner.pending = Len(CurrentCalls)
    IN  [planner EXCEPT
           !.messages = Append(@, ToolMessage(content, CallInHand.id)),
           !.pending = IF last THEN 0 ELSE @ + 1,
           !.iteration = IF last THEN @ + 1 ELSE @,
           !.pc = IF last THEN "invoke" ELSE "tools"]

\* A faulty variant of ToolNotFound: the call of an unknown tool is answered
\* in the history by a plain model message, not by a ToolMessage with the
\* id of the call.
ToolNotFoundUnanswered ==
    /\ planner.pc = "tools"
    /\ CallInHand.name \notin available_tools
    /\ LET last == planner.pending = Len(CurrentCalls)
       IN  planner' = [planner EXCEPT
                         !.messages = Append(@, HumanMessage(<<"not found">>)),
                         !.pending = IF last THEN 0 ELSE @ + 1,
                         !.iteration = IF last THEN @ + 1 ELSE @,
                         !.pc = IF last THEN "invoke" ELSE "tools"]
    /\ UNCHANGED <<conns, reqs>>

\* The tool is found and arun returns its string (lines 161-166): the text
\* of the result, or the error text _run made of a failure of the MCP call
\* (lines 30-37); the history treats both alike.
ToolReturns ==
    /\ planner.pc = "tools"
    /\ CallInHand.name \in available_tools
    /\ planner' = AppendToolMessage(<<"returned by ", CallInHand.name>>)
    /\ UNCHANGED <<conns, reqs>>

\* No tool has the name (lines 167-170).
ToolNotFound ==
    /\ planner.pc = "tools"
    /\ CallInHand.name \notin available_tools
    /\ planner' = AppendToolMessage(<<"Error: Tool '", CallInHand.name,
                                      "' not found.">>)
    /\ UNCHANGED <<conns, reqs>>

\* The call raises (lines 172-177).
ToolRaises ==
    /\ planner.pc = "tools"
    /\ CallInHand.name \in available_tools
    /\ planner' = AppendToolMessage(<<"Error executing tool '",
                                      CallInHand.name, "'">>)
    /\ UNCHANGED <<conns, reqs>>

PlannerNext ==
    \/ ProcessQuery
    \/ LlmResponds
    \/ LlmRaises
    \/ ToolReturns
    \/ ToolNotFound
    \/ ToolRaises

SpecPlanner == Init /\ [][PlannerNext]_vars

\* ==================================================================== claims
\* A body that is a JSON object, and the ways it can lack a field.
IsObjectBody(body) == body.t = "json" /\ body.v.t = "obj"
LacksField(body, key) ==
    \/ key \notin DOMAIN body.v.v
    \/ body.v.v[key] = Null
    \/ body.v.v[key] = JStr(<<>>)
HasText(body, key) ==
    /\ key \in DOMAIN body.v.v
    /\ body.v.v[key].t = "str"
    /\ body.v.v[key].v # <<>>

\* A tool-invocation request as the data model has it: session_id and
\* tool_name are non-empty strings, arguments (when given) is a mapping.
ValidRequest(body) ==
    /\ IsObjectBody(body)
    /\ HasText(body, "session_id")
    /\ HasText(body, "tool_name")
    /\ ("arguments" \in DOMAIN body.v.v => body.v.v["arguments"].t = "obj")

Arrived(r) == reqs[r].pc # "idle"
Responded(r) == reqs[r].pc = "responded"
ClientError(response) ==
    /\ response.status \in 400..499
    /\ DOMAIN response.body = {"error"}

\* text holds part as a run of consecutive tokens.
Contains(text, part) ==
    \E i \in 1..(Len(text) - Len(part) + 1) :
        SubSeq(text, i, i + Len(part) - 1) = part

\* C1: a request that names a session never issued, or issued and since
\* closed, is answered with a client error (4xx) and never with a result.
C1_ClosedOrUnknownSessionRejected ==
    \A r \in ReqIds :
        (/\ Responded(r)
         /\ IsObjectBody(reqs[r].body)
         /\ HasText(reqs[r].body, "session_id")
         /\ reqs[r].session \in {"unknown", "closed"})
        => ClientError(reqs[r].response)

\* C2: a valid tool-invocation request produces at most one tool result, none
\* before its exchange completes; once answered it has produced exactly one,
\* which is the body of that request's own HTTP response; and no event sent
\* on any push channel carries a tool result.
C2_OneResultOnTheRequestLeg ==
    /\ \A r \in ReqIds :
         (Arrived(r) /\ ValidRequest(reqs[r].body)) =>
            /\ Len(reqs[r].results) <= 1
            /\ ~Responded(r) =>
                 /\ reqs[r].results = <<>>
                 /\ reqs[r].response = NoResponse
            /\ Responded(r) =>
                 /\ Len(reqs[r].results) = 1
                 /\ reqs[r].response.status = 200
                 /\ reqs[r].response.body = ("result" :> reqs[r].results[1])
    /\ \A c \in ConnIds : \A i \in DOMAIN conns[c].sent :
         /\ conns[c].sent[i].event # "result"
         /\ "result" \notin DOMAIN conns[c].sent[i].data

\* C2 witness: a valid request answered with its one result while a push
\* channel is being served.
C2_Witness ==
    \E r \in ReqIds : \E c \in ConnIds :
        /\ Responded(r)
        /\ ValidRequest(reqs[r].body)
        /\ reqs[r].child.state = "exited"
        /\ Len(reqs[r].results) = 1
        /\ conns[c].pc = "sleeping"
        /\ JStr(conns[c].session_id) = reqs[r].body.v.v["session_id"]

\* The steps the relay itself can take for request r.
RelayStep(r) ==
    \/ Spawn(r)
    \/ SpawnFails(r)
    \/ Communicate(r)
    \/ Respond(r)

\* C3: a request waiting on a child that never terminates is not stuck: the
\* execution unit has a step to take for it (the expiry of its deadline, which
\* stops the child and reports a timeout), so the request gets a response.
C3_HungChildTimesOut ==
    \A r \in ReqIds :
        (reqs[r].pc = "waiting" /\ reqs[r].child.state = "hung")
        => ENABLED RelayStep(r)

\* C4: a connection sends nothing before its stream starts; once the stream
\* runs it has sent exactly one endpoint event, which is the first event of the
\* connection, and the session_id in that event's messages_url is the id
\* minted for this connection and the id of no other connection.
C4_OneEndpointEventFirst ==
    \A c \in ConnIds :
        /\ conns[c].pc \in {"none", "accepted"} => conns[c].sent = <<>>
        /\ conns[c].pc = "sleeping" => Len(conns[c].sent) >= 1
        /\ Cardinality({i \in DOMAIN conns[c].sent :
                          conns[c].sent[i].event = "endpoint"}) <= 1
        /\ conns[c].sent # <<>> =>
             /\ conns[c].sent[1].event = "endpoint"
             /\ DOMAIN conns[c].sent[1].data = {"messages_url"}
             /\ SessionIdOfUrl(conns[c].sent[1].data.messages_url)
                  = conns[c].session_id
             /\ \A d \in ConnIds \ {c} :
                  conns[d].pc # "none" =>
                    SessionIdOfUrl(conns[c].sent[1].data.messages_url)
                      # conns[d].session_id

\* C4 witness: two connections, the second accepted before the stream of the
\* first started, have each sent their endpoint event.
C4_Witness ==
    \E c, d \in ConnIds :
        /\ c # d
        /\ Len(conns[c].sent) = 1
        /\ Len(conns[d].sent) = 1
        /\ conns[c].pc = "sleeping"

\* C5: when the child exits with a non-zero code, the response has status 200
\* and an `error` field (no `result` field) that includes the child's stderr.
C5_NonZeroExitInErrorField ==
    \A r \in ReqIds :
        (/\ Responded(r)
         /\ reqs[r].child.state = "exited"
         /\ reqs[r].child.returncode # 0)
        => /\ reqs[r].response.status = 200
           /\ DOMAIN reqs[r].response.body = {"error"}
           /\ Contains(reqs[r].response.body["error"], reqs[r].child.stderr)

\* C6: a JSON-object body that lacks session_id or tool_name (absent, null or
\* empty) is answered at once with status 400 and an `error` text naming each
\* missing field, and no child process is spawned for it.
C6_MissingFieldRejected ==
    \A r \in ReqIds :
        (Arrived(r) /\ IsObjectBody(reqs[r].body)) =>
            \A key \in {"session_id", "tool_name"} :
                LacksField(reqs[r].body, key) =>
                    /\ Responded(r)
                    /\ reqs[r].response.status = 400
                    /\ DOMAIN reqs[r].response.body = {"error"}
                    /\ key \in Range(reqs[r].response.body["error"])
                    /\ reqs[r].spawns = 0
                    /\ reqs[r].child = NoChild

\* C6 witness: a request with a tool name, a mapping of arguments and no
\* session_id has been answered.
C6_Witness ==
    \E r \in ReqIds :
        /\ Responded(r)
        /\ IsObjectBody(reqs[r].body)
        /\ LacksField(reqs[r].body, "session_id")
        /\ HasText(reqs[r].body, "tool_name")
        /\ reqs[r].response.status = 400

\* C7: a request naming a tool that is no known capability is answered with
\* an error response: a body with an `error` field and no `result` field.
C7_UnknownToolIsError ==
    \A r \in ReqIds :
        (/\ Responded(r)
         /\ ValidRequest(reqs[r].body)
         /\ reqs[r].body.v.v["tool_name"].v \notin KnownTools)
        => /\ "error" \in DOMAIN reqs[r].response.body
           /\ "result" \notin DOMAIN reqs[r].response.body

\* C8: no two push-channel opens are given the same session id, closed
\* connections included.
C8_SessionIdsUnique ==
    \A c, d \in ConnIds :
        (c # d /\ conns[c].pc # "none" /\ conns[d].pc # "none")
        => conns[c].session_id # conns[d].session_id

\* C8 witness: a connection is opened after another one was closed.
C8_Witness ==
    \E c, d \in ConnIds :
        /\ c # d
        /\ conns[c].pc = "closed"
        /\ conns[d].pc \in {"accepted", "sleeping"}

\* C9: after a child exit with code 0, the `result` of the response is the
\* string decoded from the {"result": ...} line the handler wrote.
C9_ResultIsDecodedLine ==
    \A r \in ReqIds :
        (/\ Responded(r)
         /\ reqs[r].child.state = "exited"
         /\ reqs[r].child.returncode = 0)
        => /\ "result" \in DOMAIN reqs[r].response.body
           /\ \E line \in Range(SplitLines(reqs[r].child.stdout, <<>>)) :
                /\ IsResultLine(line)
                /\ reqs[r].response.body["result"] = JsonLoadsResult(line)

\* A body that is no tool-invocation request at all: not JSON, JSON but no
\* object, or an object whose `arguments` is not a mapping.
Malformed(body) ==
    \/ body.t = "notjson"
    \/ body.t = "json" /\ body.v.t # "obj"
    \/ /\ IsObjectBody(body)
       /\ "arguments" \in DOMAIN body.v.v
       /\ body.v.v["arguments"].t # "obj"

\* C10: a malformed body is answered with a 4xx status and an `error` string,
\* never with a 5xx and never with a result.
C10_MalformedIsClientError ==
    \A r \in ReqIds :
        (Responded(r) /\ Malformed(reqs[r].body))
        => ClientError(reqs[r].response)

\* A request the dispatcher has accepted for execution.
AcceptedInvocation(r) == Arrived(r) /\ Validate(reqs[r].body).accepted

\* The request line run_mcp_tool writes for request r.
OwnInput(r) == InputData(reqs[r].tool_name, reqs[r].tool_args)

LaterEvents(c) == SubSeq(conns[c].sent, 2, Len(conns[c].sent))

\* C13: while a push connection stays open, one keep-alive has been emitted
\* for each 60-unit interval that has elapsed, and every keep-alive comes
\* after the handshake event.
C13_KeepAliveEachInterval ==
    \A c \in ConnIds :
        conns[c].pc = "sleeping" =>
            /\ Len(conns[c].sent) >= 1
            /\ conns[c].sent[1].event = "endpoint"
            /\ Len(LaterEvents(c)) = conns[c].sleeps
            /\ \A i \in DOMAIN LaterEvents(c) :
                 LaterEvents(c)[i].event # "endpoint"

\* The requests that name the session of connection c.
RequestsNaming(c) ==
    { body \in PostedBodies :
        /\ IsObjectBody(body)
        /\ HasText(body, "session_id")
        /\ body.v.v["session_id"] = JStr(conns[c].session_id) }

\* C14: once a stream handler has finished, by whichever exit path, its
\* session is Closed: the relay accepts no invocation against it.
C14_SessionClosedWithStream ==
    \A c \in ConnIds :
        conns[c].pc = "closed" =>
            \A body \in RequestsNaming(c) : ~Validate(body).accepted

\* C15: an accepted invocation spawns one child and no more, also after the
\* child failed; a request that was not accepted spawns none; the only input
\* a child ever receives is the one request line of its own invocation.
C15_OneChildPerInvocation ==
    \A r \in Slots :
        /\ reqs[r].spawns <= 1
        /\ Len(reqs[r].results) <= 1
        /\ reqs[r].child.state # "none" <=> reqs[r].spawns = 1
        /\ reqs[r].spawns = 1 => AcceptedInvocation(r)
        /\ (AcceptedInvocation(r) /\ Responded(r) /\ reqs[r].spawns = 0) =>
              \E exc \in SpawnErrors : reqs[r].results = <<SpawnFailure(exc)>>
        /\ Len(reqs[r].child.stdin) <= 1
        /\ \A i \in DOMAIN reqs[r].child.stdin :
              reqs[r].child.stdin[i] = OwnInput(r)

\* C15 witness: two invocations answered, each by its own child fed its own
\* request line, one of the children having failed.
C15_Witness ==
    \E r, q \in Slots :
        /\ r # q
        /\ Responded(r) /\ Responded(q)
        /\ reqs[r].spawns = 1 /\ reqs[q].spawns = 1
        /\ reqs[r].child.stdin = <<OwnInput(r)>>
        /\ reqs[q].child.stdin = <<OwnInput(q)>>
        /\ OwnInput(r) # OwnInput(q)
        /\ reqs[r].child.returncode # 0
        /\ reqs[q].child.returncode = 0

\* What the child of request r left behind, and what a child fed the request
\* line of r can leave behind.
ChildOutcome(r) ==
    [returncode |-> reqs[r].child.returncode,
     stdout |-> reqs[r].child.stdout,
     stderr |-> reqs[r].child.stderr]
OutcomesOfOwnInput(r) ==
    LET ran == { main(<<OwnInput(r)>>, provider) :
                   provider \in ProviderOutcomes }
    IN  { [returncode |-> e.returncode, stdout |-> e.stdout,
           stderr |-> e.stderr] : e \in ran }
        \cup { [returncode |-> 0 - KillSignal, stdout |-> e.stdout,
                stderr |-> e.stderr] : e \in {x \in ran : x.returncode = 0} }
        \cup { [returncode |-> 1, stdout |-> <<>>,
                stderr |-> Traceback(StartupDiagnostic[1])] }

\* C16: with several invocations in flight, the response of each is built
\* from the outcome of its own child and of no other, and that outcome is
\* one its own request line can produce: a failure of one child shows in no
\* other response and outputs are never swapped.
C16_OwnChildOutcomeOnly ==
    \A r \in Slots :
        /\ reqs[r].child.state = "exited" =>
              ChildOutcome(r) \in OutcomesOfOwnInput(r)
        /\ (Responded(r) /\ reqs[r].spawns = 1) =>
              /\ reqs[r].child.state = "exited"
              /\ reqs[r].response =
                   ToolResponse(ToolOutcome(reqs[r].child.returncode,
                                            reqs[r].child.stdout,
                                            reqs[r].child.stderr))

\* C16 witness: a later invocation was answered with the output of its own
\* child while an earlier one, still in flight, had its child fail.
C16_Witness ==
    \E q, r \in Slots :
        /\ q < r
        /\ reqs[q].pc = "waiting"
        /\ reqs[q].child.state = "exited"
        /\ reqs[q].child.returncode # 0
        /\ Responded(r)
        /\ reqs[r].child.state = "exited"
        /\ reqs[r].child.returncode = 0
        /\ OwnInput(r) # OwnInput(q)
        /\ reqs[r].response.body = ("result" :> Strip(reqs[r].child.stdout))

\* An accepted invocation whose session was open when it arrived and whose
\* push channel has gone since.
OutlivesItsChannel(r) ==
    /\ AcceptedInvocation(r)
    /\ reqs[r].session = "open"
    /\ SessionState(reqs[r].body.v.v["session_id"]) = "closed"

\* C17: when the push channel of a session goes while an invocation naming
\* it is in flight, the keep-alive loop of that channel stops, and the
\* invocation is not cancelled: each of its remaining steps stays possible
\* and, once answered, it has its 200 response with its one result.
C17_InFlightSurvivesDisconnect ==
    /\ \A c \in ConnIds :
         conns[c].pc = "closed" => ~ENABLED SleepElapsed(c)
    /\ \A r \in ReqIds :
         OutlivesItsChannel(r) =>
            /\ reqs[r].pc \in {"dispatch", "spawned", "waiting", "responded"}
            /\ reqs[r].pc = "dispatch" => ENABLED Spawn(r)
            /\ reqs[r].pc = "spawned" => ENABLED Communicate(r)
            /\ (reqs[r].pc = "waiting" /\ reqs[r].child.state = "running")
                  => ENABLED ChildExit(r)
            /\ (reqs[r].pc = "waiting" /\ reqs[r].child.state = "exited")
                  => ENABLED Respond(r)
            /\ Responded(r) =>
                  /\ Len(reqs[r].results) = 1
                  /\ reqs[r].response = ToolResponse(reqs[r].results[1])

\* C17 witness: the channel went while the invocation was in flight; its
\* child has since run to its exit and the response is about to be sent.
C17_Witness ==
    \E r \in ReqIds :
        /\ OutlivesItsChannel(r)
        /\ reqs[r].pc = "waiting"
        /\ reqs[r].child.state = "exited"
        /\ reqs[r].child.returncode = 0
        /\ ENABLED Respond(r)

\* The arguments the handler program calls its capability with for request
\* r, and the arguments the body of r gave.
DeliveredArgs(r) == HandlerArgs(JsonLoads(reqs[r].child.stdin[1]))
RequestArgs(r) ==
    IF "arguments" \in DOMAIN reqs[r].body.v.v
    THEN reqs[r].body.v.v["arguments"].v
    ELSE EmptyMap

\* C18: the arguments delivered to the handler are those of the request with
\* session_id set to the request's top-level session_id, whatever session_id
\* the arguments carried; every other key keeps its value, no key is added,
\* and a request without arguments delivers session_id alone.
C18_SessionIdInjected ==
    \A r \in ReqIds :
        reqs[r].child.stdin # <<>> =>
            /\ DOMAIN DeliveredArgs(r) =
                 DOMAIN RequestArgs(r) \cup {"session_id"}
            /\ DeliveredArgs(r)["session_id"] =
                 reqs[r].body.v.v["session_id"]
            /\ \A k \in DOMAIN RequestArgs(r) \ {"session_id"} :
                 DeliveredArgs(r)[k] = RequestArgs(r)[k]
            /\ "arguments" \notin DOMAIN reqs[r].body.v.v =>
                 DeliveredArgs(r) =
                   ("session_id" :> reqs[r].body.v.v["session_id"])

\* C18 witness: a request whose arguments carry a session_id of their own
\* reached the handler with the top-level one in its place and its other
\* argument untouched.
C18_Witness ==
    \E r \in ReqIds :
        /\ reqs[r].child.stdin # <<>>
        /\ "session_id" \in DOMAIN RequestArgs(r)
        /\ RequestArgs(r)["session_id"] # reqs[r].body.v.v["session_id"]
        /\ DeliveredArgs(r)["session_id"] = reqs[r].body.v.v["session_id"]
        /\ "state" \in DOMAIN RequestArgs(r)
        /\ DeliveredArgs(r)["state"] = RequestArgs(r)["state"]

\* The result lines a child wrote to its stdout.
ResultLines(r) ==
    { line \in Range(SplitLines(reqs[r].child.stdout, <<>>)) :
        IsResultLine(line) }

RaisesInDispatch(body) ==
    /\ body.t = "json"
    /\ \/ body.v.t # "obj"
       \/ /\ RequiredFieldsPresent(DictGet(body.v.v, "session_id", Null),
                                   DictGet(body.v.v, "tool_name", Null))
          /\ DictGet(body.v.v, "arguments", JObj(EmptyMap)).t # "obj"
Faulted(r) == Arrived(r) /\ RaisesInDispatch(reqs[r].body)

\* Request q is being served as the code serves any request: it is at one of
\* the handler's positions, its next step is possible, and once answered
\* after a spawn it carries the outcome of its own child.
ServedAsUsual(q) ==
    /\ reqs[q].pc \in {"idle", "dispatch", "spawned", "waiting", "responded"}
    /\ (reqs[q].pc = "idle" /\ \A p \in Slots : p < q => Arrived(p)) =>
          \A body \in PairBodies : ENABLED HandleMessages(q, body)
    /\ reqs[q].pc = "dispatch" => ENABLED Spawn(q)
    /\ reqs[q].pc = "spawned" => ENABLED Communicate(q)
    /\ (reqs[q].pc = "waiting" /\ reqs[q].child.state = "running")
          => ENABLED ChildExit(q)
    /\ (reqs[q].pc = "waiting" /\ reqs[q].child.state = "exited")
          => ENABLED Respond(q)
    /\ (Responded(q) /\ reqs[q].spawns = 1) =>
          reqs[q].response =
            ToolResponse(ToolOutcome(reqs[q].child.returncode,
                                     reqs[q].child.stdout,
                                     reqs[q].child.stderr))

\* The push channel is being served as the code serves it.
ChannelServedAsUsual(c) ==
    /\ conns[c].pc = "none" => ENABLED HandleSse(c)
    /\ conns[c].pc = "accepted" => ENABLED StreamStart(c)
    /\ (conns[c].pc = "sleeping" /\ conns[c].sleeps < MaxSleeps)
          => ENABLED SleepElapsed(c)
    /\ conns[c].pc \in {"accepted", "sleeping"} => ENABLED Disconnect(c)

\* C20: a request on which the dispatcher raises is answered with a 5xx
\* status and an `error` field, without a spawn and without a result; every
\* other request and the push channel go on being served as if the fault
\* had not happened.
C20_FaultStaysWithItsRequest ==
    \A r \in Slots :
        Faulted(r) =>
            /\ Responded(r)
            /\ reqs[r].response.status \in 500..599
            /\ DOMAIN reqs[r].response.body = {"error"}
            /\ reqs[r].spawns = 0
            /\ reqs[r].results = <<>>
            /\ \A q \in Slots \ {r} : ~Faulted(q) => ServedAsUsual(q)
            /\ ChannelServedAsUsual(FirstConn)

\* C20 witness: after a request was answered 500, a later request got the
\* result of its child and the push channel is open and sleeping.
C20_Witness ==
    \E r, q \in Slots :
        /\ r < q
        /\ Faulted(r)
        /\ reqs[r].response.status = 500
        /\ Responded(q)
        /\ reqs[q].child.state = "exited"
        /\ reqs[q].child.returncode = 0
        /\ reqs[q].response.status = 200
        /\ conns[FirstConn].pc = "sleeping"
        /\ Len(conns[FirstConn].sent) = 1

\* Connection c goes from open to closed in this step.
Drops(c) ==
    /\ conns[c].pc \in {"accepted", "sleeping"}
    /\ conns'[c].pc = "closed"

\* C21: a drop or write failure on one push channel ends the stream handler
\* of that connection only: the step leaves every other connection and every
\* request as they were, every other open stream can still take its next
\* step, and invocations naming another open session are still accepted.
C21_DropEndsOnlyItsStream ==
    /\ [][\A c \in ConnIds :
            Drops(c) => /\ \A d \in ConnIds \ {c} : conns'[d] = conns[d]
                        /\ reqs' = reqs]_vars
    /\ [](\A c \in ConnIds :
            conns[c].pc = "closed" =>
               \A d \in ConnIds \ {c} :
                  /\ conns[d].pc = "accepted" => ENABLED StreamStart(d)
                  /\ (conns[d].pc = "sleeping" /\ conns[d].sleeps < MaxSleeps)
                        => ENABLED SleepElapsed(d)
                  /\ conns[d].pc \in {"accepted", "sleeping"} =>
                        \A body \in RequestsNaming(d) :
                           ValidRequest(body) => Validate(body).accepted)

\* C21 witness: one connection dropped after its handshake while another
\* stream is still sleeping and an invocation naming that other session has
\* been accepted.
C21_Witness ==
    \E c, d \in ConnIds : \E r \in ReqIds :
        /\ c # d
        /\ conns[c].pc = "closed"
        /\ Len(conns[c].sent) = 1
        /\ conns[d].pc = "sleeping"
        /\ AcceptedInvocation(r)
        /\ reqs[r].body.v.v["session_id"] = JStr(conns[d].session_id)
        /\ reqs[r].session = "open"

\* The lines the child of request r wrote to its standard output.
StdoutLines(r) == SplitLines(reqs[r].child.stdout, <<>>)

\* C22: a handler process that has read its input and answered has written
\* to its standard output one line per request line it read, each of them a
\* {"result": ...} object, and nothing else.
C22_OneResultLinePerRequestLine ==
    \A r \in ReqIds :
        (/\ reqs[r].child.state = "exited"
         /\ reqs[r].child.returncode = 0)
        => /\ Len(StdoutLines(r)) = Len(reqs[r].child.stdin)
           /\ \A i \in DOMAIN StdoutLines(r) : IsResultLine(StdoutLines(r)[i])

\* The texts the capabilities return when a lookup at the data provider
\* failed, and the runs of the handler of request r in which one did.
UnavailableTexts ==
    {AlertsUnavailable, ForecastUnavailable, ForecastDetailUnavailable}
ProviderFailedRun(r, text) ==
    /\ reqs[r].child.state = "exited"
    /\ \E provider \in ProviderOutcomes :
         LET e == main(<<OwnInput(r)>>, provider)
         IN  ChildOutcome(r) = [returncode |-> e.returncode,
                                stdout |-> e.stdout, stderr |-> e.stderr]
    /\ JsonDumpsResult(text) \in Range(StdoutLines(r))

\* C23: when a lookup at the data provider fails, the handler answers with
\* its plain 'unable to fetch' text and exits with code 0, and the relay
\* returns that text as the result of a 200 response.
C23_ProviderFailureIsPlainResult ==
    \A r \in ReqIds : \A text \in UnavailableTexts :
        ProviderFailedRun(r, text) =>
            /\ reqs[r].child.returncode = 0
            /\ Responded(r) =>
                 reqs[r].response = JSONResponse("result", text, 200)

\* The push channel of connection c is open.
ChannelOpen(c) == conns[c].pc \in {"accepted", "sleeping"}

\* C24: once the relay client has read the endpoint event on a channel that
\* is still open, sse_client can hand the url and session id back to main,
\* and main is at its posts only while that channel is open.
C24_ClientPostsWhileChannelOpen ==
    \A c \in ConnIds :
        /\ (/\ conns[c].client.pc = "reading"
            /\ conns[c].client.endpoint_found
            /\ ChannelOpen(c))
           => ENABLED SseClientReturns(c)
        /\ conns[c].client.pc \in {"post_forecast", "posting_forecast",
                                   "post_alerts", "posting_alerts"}
           => ChannelOpen(c)

\* A response of the dispatcher that reports success.
SuccessStatus(status) == status \in 200..299

\* C25: the message the relay client posts is accepted by the dispatcher as
\* a valid request, and post_message returns True exactly when the
\* dispatcher answered with a success response, for every post that has
\* returned.
C25_ClientAndRelayAgree ==
    \A c \in ConnIds :
        /\ conns[c].client.pc \in {"posting_forecast", "posting_alerts"} =>
              /\ ValidRequest(JsonBody(MessageInHand(c)))
              /\ Validate(JsonBody(MessageInHand(c))).accepted
        /\ \A i \in DOMAIN conns[c].client.posted :
              conns[c].client.posted[i].returned
                 <=> SuccessStatus(conns[c].client.posted[i].status)

\* The ToolMessages of the history that carry a given call id, and how many
\* of the calls of the model response at index i have their message behind
\* it.
MessagesFor(id) ==
    { m \in DOMAIN planner.messages :
        /\ planner.messages[m].type = "tool"
        /\ planner.messages[m].tool_call_id = id }
AnsweredCalls(i) ==
    IF Len(planner.messages) - i < Len(planner.messages[i].tool_calls)
    THEN Len(planner.messages) - i
    ELSE Len(planner.messages[i].tool_calls)

\* C26: in the history of process_query every tool call of a model response
\* is followed by one ToolMessage with its id, in the order of the calls and
\* with nothing in between; calls are without their message only while the
\* loop over them is still running, so never when the model is invoked
\* again; and no call id is answered twice.
C26_EveryToolCallAnswered ==
    \A i \in DOMAIN planner.messages :
        planner.messages[i].type = "ai" =>
            LET calls == planner.messages[i].tool_calls
            IN  /\ \A j \in 1..AnsweredCalls(i) :
                      /\ planner.messages[i + j].type = "tool"
                      /\ planner.messages[i + j].tool_call_id = calls[j].id
                /\ AnsweredCalls(i) < Len(calls) =>
                      /\ planner.pc = "tools"
                      /\ planner.pending = AnsweredCalls(i) + 1
                /\ \A j \in DOMAIN calls :
                      Cardinality(MessagesFor(calls[j].id)) =
                         IF j <= AnsweredCalls(i) THEN 1 ELSE 0

\* C26 witness: a model response with two calls, one of a tool that does not
\* exist and one that raised, got its two ToolMessages in order before the
\* model was invoked again.
C26_Witness ==
    \E i \in DOMAIN planner.messages :
        /\ planner.messages[i].type = "ai"
        /\ Len(planner.messages[i].tool_calls) = 2
        /\ Len(planner.messages) >= i + 3
        /\ planner.messages[i].tool_calls[1].name \notin available_tools
        /\ planner.messages[i + 1] =
             ToolMessage(<<"Error: Tool '", "get_tides", "' not found.">>,
                         planner.messages[i].tool_calls[1].id)
        /\ planner.messages[i + 2] =
             ToolMessage(<<"Error executing tool '", "get_alerts", "'">>,
                         planner.messages[i].tool_calls[2].id)
        /\ planner.messages[i + 3].type = "ai"

\* A request that passes the field validation of handle_messages (line 104).
PassesFieldValidation(body) ==
    /\ IsObjectBody(body)
    /\ RequiredFieldsPresent(DictGet(body.v.v, "session_id", Null),
                             DictGet(body.v.v, "tool_name", Null))

\* C27: whatever the child does, run_mcp_tool returns a string, so an
\* answered request that passed the field validation has status 200 and a
\* `result` field, never a 5xx.
C27_ValidatedRequestGetsResult ==
    \A r \in ReqIds :
        (Responded(r) /\ PassesFieldValidation(reqs[r].body))
        => /\ reqs[r].response.status = 200
           /\ DOMAIN reqs[r].response.body = {"result"}

\* An accepted request that names a known tool with arguments the tool
\* takes.
WellFormedInvocation(r) ==
    /\ AcceptedInvocation(r)
    /\ \/ /\ reqs[r].tool_name = JStr(<<"get_alerts">>)
          /\ Binds(reqs[r].tool_args, {"state"}, {"session_id"})
       \/ /\ reqs[r].tool_name = JStr(<<"get_forecast">>)
          /\ Binds(reqs[r].tool_args, {"latitude", "longitude"},
                   {"session_id"})

\* The child of request r ran the handler program to its own end.
HandlerRanToItsEnd(r) ==
    /\ reqs[r].child.state = "exited"
    /\ \E provider \in ProviderOutcomes :
         LET e == main(reqs[r].child.stdin, provider)
         IN  ChildOutcome(r) = [returncode |-> e.returncode,
                                stdout |-> e.stdout, stderr |-> e.stderr]

\* C28: the exchange of a well-formed invocation of a known tool comes to
\* its end: the request is answered in the end; and a handler that ran to
\* its own end was given the one request line on a closed stdin, wrote its
\* answer, read end of input (its "No request found" on stderr) and exited
\* with code 0, after which the response carries status 200.
C28_ExchangeTerminates ==
    /\ \A r \in ReqIds :
         (reqs[r].pc = "dispatch" /\ WellFormedInvocation(r))
            ~> Responded(r)
    /\ [](\A r \in ReqIds :
            (WellFormedInvocation(r) /\ HandlerRanToItsEnd(r)) =>
               /\ reqs[r].child.stdin = <<OwnInput(r)>>
               /\ reqs[r].child.stdin_closed
               /\ reqs[r].child.returncode = 0
               /\ ResultLines(r) # {}
               /\ Contains(reqs[r].child.stderr, <<"No request found">>)
               /\ Responded(r) => reqs[r].response.status = 200)

\* C28 witness: a well-formed invocation answered after its handler wrote
\* its answer and exited with code 0.
C28_Witness ==
    \E r \in ReqIds :
        /\ WellFormedInvocation(r)
        /\ HandlerRanToItsEnd(r)
        /\ Responded(r)
        /\ reqs[r].child.returncode = 0
        /\ reqs[r].child.stdin_closed
        /\ reqs[r].response.status = 200

====
